---------------------------- MODULE Spec2Model ----------------------------
(***************************************************************************)
(* Tokenizer notebooks of the LLMs-from-scratch collection:                *)
(*   - learn_bpe        (BPE notebook, src/unnamed/part_001)               *)
(*   - train_wordpiece  (notebook_03_wordpiece_tokenizer.ipynb)            *)
(*   - merge_vocab      (byte-level BPE, notebook_04_..., second document) *)
(*   - byte_tokenize    (byte-level BPE, same file)                        *)
(*   - tokenize_wordpiece (notebook_03_wordpiece_tokenizer.ipynb)          *)
(*                                                                         *)
(* A Python str is a sequence of one-character strings, a bytes object a   *)
(* sequence of integers 0..255, a dict / Counter (insertion ordered) a     *)
(* sequence of <<key, value>> entries.                                     *)
(***************************************************************************)
EXTENDS Integers, Sequences, FiniteSets, TLC

VARIABLES
    prog,         \* the routine that is running
    tokens,       \* its corpus argument (words, or sentences as code points)
    num_merges,   \* its num_merges argument
    pc,           \* position in the routine
    i,            \* loop counter of the merge loop
    vocab,        \* learn_bpe / train_wordpiece: the symbol vocabulary
    byte_corpus,  \* byte-level merge_vocab: the corpus of token lines
    pairs,        \* pair statistics counted in the last iteration
    counted,      \* history: <<the vocabulary or corpus they were counted in>>
    best,         \* pair selected in the last iteration
    merges,       \* byte-level merge_vocab: the merge list
    out,          \* lines printed by the learner
    ret,          \* value returned
    hist,         \* history: <<vocabulary or corpus before the merge, pair merged>>
    text,         \* byte_tokenize: text argument (code points)
    merge_list,   \* byte_tokenize: merges argument
    bt_tokens,    \* byte_tokenize: tokens
    bt_k,         \* byte_tokenize: number of merges replayed
    word,         \* tokenize_wordpiece: word argument
    wp_vocab,     \* tokenize_wordpiece: vocab argument (a set of str)
    wp_tokens,    \* tokenize_wordpiece: tokens
    wp_i,         \* tokenize_wordpiece: i (0-based)
    wp_spans,     \* history: <<i, j>> of every token appended
    g_vocab,      \* BPE notebook: the global vocab of the cells before learn_bpe
    sentence,     \* the words that are looked up in a vocabulary
    encoded,      \* the ids found for them
    vocab_size,   \* embedding notebooks: len(vocab), the number of embedding rows
    token_ids     \* embedding notebooks: the ids handed to the embedding layer

learnVars == <<prog, tokens, num_merges, pc, i, vocab, byte_corpus, pairs, counted, best,
               merges, out, ret, hist>>
btVars == <<text, merge_list, bt_tokens, bt_k>>
wpVars == <<word, wp_vocab, wp_tokens, wp_i, wp_spans>>
nbVars == <<g_vocab, sentence, encoded, vocab_size, token_ids>>
vars == <<learnVars, btVars, wpVars, nbVars>>

---------------------------------------------------------------------------
(* Bounds of the model *)

\* longest corpus (number of words / sentences) enumerated
MaxWords == 3
\* largest num_merges enumerated
MaxMerges == 3

(* Inputs enumerated *)

\* corpus words of learn_bpe / train_wordpiece (no whitespace, as corpus.split() gives)
CorpusWords ==
    { <<"a">>, <<"a", "a">>, <<"a", "a", "b">>, <<"a", "a", "a">> }

\* sentences of the byte-level corpus, as code points (233 is e-acute: two bytes)
Sentences ==
    { <<97>>, <<97, 97, 97>>, <<97, 98, 97, 98>>, <<98, 97, 233>> }

\* corpus words made of characters of the end-of-word marker, not containing it
MarkerCharWords == { <<"<", "\\", "w">>, <<"w", ">">> }

\* the corpora of the notebooks
SampleTokens ==
    << <<"l","o","w">>, <<"l","o","w","e","r">>, <<"l","o","w","e","s","t">>,
       <<"l","o","w">>, <<"l","o","w","e","r">>, <<"l","o","w","e","s","t">> >>
SampleWordpieceCorpus ==
    << <<"p","l","a","y","i","n","g">>, <<"p","l","a","y","e","d">>,
       <<"p","l","a","y","e","r">>, <<"p","l","a","y">>,
       <<"r","e","p","l","a","y">> >>
SampleByteCorpus ==
    << <<72,101,108,108,111,32,87,111,114,108,100>>,
       <<72,101,108,108,111,32,128522>>,
       <<72,101,108,108,111,32,100,97,114,107,110,101,115,115,32,109,121,32,
         111,108,100,32,102,114,105,101,110,100>> >>

\* longest text (code points) given to byte_tokenize
MaxTextLen == 3
\* longest merge list given to byte_tokenize
MaxMergeList == 2
\* longest word given to tokenize_wordpiece
MaxWordLen == 3

\* longest text (characters) given to the word-level tokenizer
MaxTextChars == 5
\* characters of its texts: a letter, a capital, a digit, punctuation, whitespace
TextChars == { "a", "B", "1", "!", " " }
\* texts that are tokenized after the vocabulary was built
OtherTexts ==
    { << >>, <<"a">>, <<"b", " ", "a">>, <<"A", "!", "c">> }
\* text of the word-level notebook
SampleWordText ==
    << "H", "e", "l", "l", "o", " ", "w", "o", "r", "l", "d", "!", " ", "%", "^", " ",
       "T", "h", "i", "s", " ", "i", "s", " ", "a", "n", " ", "e", "x", "a", "m", "p",
       "l", "e", " ", "o", "f", " ", "t", "o", "k", "e", "n", "i", "z", "a", "t", "i",
       "o", "n", " ", "i", "n", " ", "a", "c", "t", "i", "o", "n", " ", "$" >>

\* words of the word lists of the embedding notebooks, and their own lists
EmbWords == { "I", "love", "AI" }
SampleEmbText == << "I", "love", "AI", "hate", "GPT" >>
SampleEmbSentence == << "I", "love", "AI" >>
SampleCombineText == << "I", "love", "AI", "and", "pizza" >>

\* code points of the texts of byte_tokenize
CodePoints == { 97, 98, 233 }
\* byte strings a merge list of byte_tokenize is drawn from
CandidateMerges ==
    { <<97, 97>>, <<97, 98>>, <<97, 97, 98>>, <<195, 169>>, <<98, 195>>, <<169>> }
\* test_text = "Hello " + U+1F30D, and the merges learned from the sample corpus
SampleText == <<72, 101, 108, 108, 111, 32, 127757>>
SampleByteMerges ==
    << <<72, 101>>, <<72, 101, 108>>, <<72, 101, 108, 108>>, <<72, 101, 108, 108, 111>>,
       <<72, 101, 108, 108, 111, 32>> >>

\* characters of the words of tokenize_wordpiece, and the subwords its vocab is drawn from
WordChars == { "a", "b" }
CandidateSubwords ==
    { <<"a">>, <<"a", "b">>, <<"#", "#", "a">>, <<"#", "#", "b">>, <<"#", "#", "b", "a">>,
      <<"#", "#", "a", "b">> }
\* "replaying", and the subwords of the vocabulary trained on the sample corpus
SampleWord == <<"r", "e", "p", "l", "a", "y", "i", "n", "g">>
SampleSubwords ==
    { <<"<", "\\", "w", ">">>,
      <<"e">>,
      <<"p", "l", "a", "y", "<", "\\", "w", ">">>,
      <<"p", "l", "a", "y", "e">>,
      <<"p", "l", "a", "y", "e", "d">>,
      <<"p", "l", "a", "y", "i", "n", "g", "<", "\\", "w", ">">>,
      <<"r">> }

\* num_merges of the notebooks' own calls
DefaultNumMerges == 5
WordpieceNumMerges == 10
ByteNumMerges == 5

SeqsUpTo(S, n) == UNION { [1..k -> S] : k \in 0..n }

---------------------------------------------------------------------------
(* Python built-ins *)

\* sep.join(parts)
RECURSIVE join(_, _)
join(sep, parts) ==
    IF parts = <<>> THEN <<>>
    ELSE IF Len(parts) = 1 THEN parts[1]
    ELSE parts[1] \o sep \o join(sep, Tail(parts))

\* list(word): the characters of a str, each a str
list_of(w) == [k \in 1..Len(w) |-> <<w[k]>>]

\* whitespace: what str.split() splits on and what \s matches
Whitespace == { " ", "\t", "\n" }
is_space(c) == c \in Whitespace

\* s.split(): the maximal runs of non-whitespace characters, left to right
split(s) ==
    LET n == Len(s)
        starts == { k \in 1..n : ~is_space(s[k]) /\ (k = 1 \/ is_space(s[k-1])) }
        end_of(k) == CHOOSE e \in k..n :
                        /\ \A j \in k..e : ~is_space(s[j])
                        /\ (e = n \/ is_space(s[e+1]))
        nth(j) == CHOOSE k \in starts : Cardinality({ m \in starts : m <= k }) = j
    IN [j \in 1..Cardinality(starts) |-> SubSeq(s, nth(j), end_of(nth(j)))]

starts_with(s, p) == Len(p) <= Len(s) /\ SubSeq(s, 1, Len(p)) = p

\* s.replace(old, new), old non-empty: the occurrences of old in the characters
\* of s, taken left to right without overlap
RECURSIVE replace(_, _, _)
replace(s, old, new) ==
    LET found == { k \in 1..(Len(s) - Len(old) + 1) : SubSeq(s, k, k + Len(old) - 1) = old }
    IN IF found = {} THEN s
       ELSE LET k == CHOOSE h \in found : \A g \in found : h <= g
            IN SubSeq(s, 1, k - 1) \o new \o replace(SubSeq(s, k + Len(old), Len(s)), old, new)

\* dict / Counter, insertion ordered
Keys(d) == { d[k][1] : k \in 1..Len(d) }
index_of(d, key) == CHOOSE k \in 1..Len(d) : d[k][1] = key
dict_get(d, key) == d[index_of(d, key)][2]
\* d[key] = v
dict_set(d, key, v) ==
    IF key \in Keys(d) THEN [d EXCEPT ![index_of(d, key)] = <<key, v>>]
    ELSE Append(d, <<key, v>>)
\* counter[key] += n
counter_add(d, key, n) ==
    IF key \in Keys(d) THEN [d EXCEPT ![index_of(d, key)] = <<key, d[index_of(d, key)][2] + n>>]
    ELSE Append(d, <<key, n>>)

\* range(n) has a next value after i values were taken
range_next_off_by_one(k, n) == k <= n
range_next_one_short(k, n) == k < n - 1
range_next(k, n) == k < n

\* list.append
append_front(l, x) == <<x>> \o l
list_append(l, x) == Append(l, x)

\* max(d, key = d.get) and Counter.most_common(1)[0][0]: the first key, in
\* insertion order, whose value is maximal
RECURSIVE first_max_loop(_, _, _)
first_max_loop(d, k, bestk) ==
    IF k > Len(d) THEN d[bestk][1]
    ELSE LET nb == IF d[k][2] > d[bestk][2] THEN k ELSE bestk
         IN  \* the test makes the evaluator compute nb before it recurses
             IF nb > 0 THEN first_max_loop(d, k + 1, nb) ELSE d[nb][1]

---------------------------------------------------------------------------
(* BPE notebook *)

\* r'<\w>'
EOW == <<"<", "\\", "w", ">">>

get_vocab_no_marker(toks) ==
    LET RECURSIVE loop(_, _)
        loop(rest, v) ==
            IF rest = <<>> THEN v
            ELSE LET nv == counter_add(v, join(<<" ">>, list_of(Head(rest))), 1)
                 IN  IF Len(nv) > 0 THEN loop(Tail(rest), nv) ELSE nv
    IN loop(toks, <<>>)

\* the marker put in front of the word
get_vocab_marker_first(toks) ==
    LET RECURSIVE loop(_, _)
        loop(rest, v) ==
            IF rest = <<>> THEN v
            ELSE LET chars == EOW \o <<" ">> \o join(<<" ">>, list_of(Head(rest)))
                     nv == counter_add(v, chars, 1)
                 IN  IF Len(nv) > 0 THEN loop(Tail(rest), nv) ELSE nv
    IN loop(toks, <<>>)

get_vocab(toks) ==
    LET RECURSIVE loop(_, _)
        loop(rest, v) ==
            IF rest = <<>> THEN v
            ELSE LET chars == join(<<" ">>, list_of(Head(rest))) \o <<" ">> \o EOW
                     nv == counter_add(v, chars, 1)
                 IN  IF Len(nv) > 0 THEN loop(Tail(rest), nv) ELSE nv
    IN loop(toks, <<>>)

get_stats_unweighted(v) ==
    LET RECURSIVE inner(_, _, _)
        inner(symbols, k, ps) ==
            IF k > Len(symbols) - 1 THEN ps
            ELSE LET nps == counter_add(ps, <<symbols[k], symbols[k+1]>>, 1)
                 IN  IF Len(nps) > 0 THEN inner(symbols, k + 1, nps) ELSE nps
        RECURSIVE outer(_, _)
        outer(e, ps) ==
            IF e > Len(v) THEN ps
            ELSE LET nps == inner(split(v[e][1]), 1, ps)
                 IN  IF Len(nps) >= 0 THEN outer(e + 1, nps) ELSE nps
    IN outer(1, <<>>)

get_stats(v) ==
    LET RECURSIVE inner(_, _, _, _)
        inner(symbols, freq, k, ps) ==
            IF k > Len(symbols) - 1 THEN ps
            ELSE LET nps == counter_add(ps, <<symbols[k], symbols[k+1]>>, freq)
                 IN  IF Len(nps) > 0 THEN inner(symbols, freq, k + 1, nps) ELSE nps
        RECURSIVE outer(_, _)
        outer(e, ps) ==
            IF e > Len(v) THEN ps
            ELSE LET nps == inner(split(v[e][1]), v[e][2], 1, ps)
                 IN  IF Len(nps) >= 0 THEN outer(e + 1, nps) ELSE nps
    IN outer(1, <<>>)

\* new_vocab[new_word] = 1: the frequency is not kept
merge_vocab_reset_count(pair, v) ==
    LET bigram == join(<<" ">>, pair)
        replacement == join(<<>>, pair)
    IN [e \in 1..Len(v) |-> <<replace(v[e][1], bigram, replacement), 1>>]

last_max(d) ==
    LET RECURSIVE loop(_, _)
        loop(k, bestk) ==
            IF k > Len(d) THEN d[bestk][1]
            ELSE loop(k + 1, IF d[k][2] >= d[bestk][2] THEN k ELSE bestk)
    IN loop(2, 1)

first_inserted(d) == d[1][1]

\* pairs.most_common(1)[0][0]
most_common_1(d) == first_max_loop(d, 2, 1)

merge_vocab(pair, v) ==
    LET bigram == join(<<" ">>, pair)
        replacement == join(<<>>, pair)
        RECURSIVE loop(_, _)
        loop(e, new_vocab) ==
            IF e > Len(v) THEN new_vocab
            ELSE LET nv == dict_set(new_vocab, replace(v[e][1], bigram, replacement), v[e][2])
                 IN  IF Len(nv) > 0 THEN loop(e + 1, nv) ELSE nv
    IN loop(1, <<>>)

---------------------------------------------------------------------------
(* WordPiece notebook *)

build_initial_vocab(corpus) ==
    LET RECURSIVE loop(_, _)
        loop(rest, v) ==
            IF rest = <<>> THEN v
            ELSE LET chars == list_of(Head(rest)) \o <<EOW>>
                     toks == join(<<" ">>, chars)
                     nv == counter_add(v, toks, 1)
                 IN  IF Len(nv) > 0 THEN loop(Tail(rest), nv) ELSE nv
    IN loop(corpus, <<>>)

wp_get_stats(v) ==
    LET RECURSIVE inner(_, _, _, _)
        inner(symbols, freq, k, ps) ==
            IF k > Len(symbols) - 1 THEN ps
            ELSE LET nps == counter_add(ps, <<symbols[k], symbols[k+1]>>, freq)
                 IN  IF Len(nps) > 0 THEN inner(symbols, freq, k + 1, nps) ELSE nps
        RECURSIVE outer(_, _)
        outer(e, ps) ==
            IF e > Len(v) THEN ps
            ELSE LET nps == inner(split(v[e][1]), v[e][2], 1, ps)
                 IN  IF Len(nps) >= 0 THEN outer(e + 1, nps) ELSE nps
    IN outer(1, <<>>)

\* max(pairs, key = pairs.get)
max_by_get(d) == first_max_loop(d, 2, 1)

wp_merge_vocab(pair, v) ==
    LET bigram == join(<<" ">>, pair)
        replacement == join(<<>>, pair)
        RECURSIVE loop(_, _)
        loop(e, new_vocab) ==
            IF e > Len(v) THEN new_vocab
            ELSE LET nv == dict_set(new_vocab, replace(v[e][1], bigram, replacement), v[e][2])
                 IN  IF Len(nv) > 0 THEN loop(e + 1, nv) ELSE nv
    IN loop(1, <<>>)

---------------------------------------------------------------------------
(* Byte-level BPE notebook *)

\* str.encode('utf-8') of one code point
utf8_char(c) ==
    IF c < 128 THEN <<c>>
    ELSE IF c < 2048 THEN <<192 + (c \div 64), 128 + (c % 64)>>
    ELSE IF c < 65536
         THEN <<224 + (c \div 4096), 128 + ((c \div 64) % 64), 128 + (c % 64)>>
         ELSE <<240 + (c \div 262144), 128 + ((c \div 4096) % 64),
                128 + ((c \div 64) % 64), 128 + (c % 64)>>

\* sentence.encode('utf-8')
RECURSIVE encode_utf8(_)
encode_utf8(s) == IF s = <<>> THEN <<>> ELSE utf8_char(Head(s)) \o encode_utf8(Tail(s))

\* an element of a corpus line is an int or a bytes object
IntItem(b) == [isbytes |-> FALSE, v |-> b]
BytesItem(bs) == [isbytes |-> TRUE, v |-> bs]

\* [list(sentence.encode('utf-8')) for sentence in corpus]
get_byte_corpus(corpus) ==
    [s \in 1..Len(corpus) |->
        LET bs == encode_utf8(corpus[s]) IN [k \in 1..Len(bs) |-> IntItem(bs[k])]]

\* b if isinstance(b, bytes) else bytes([b])
as_bytes(x) == IF x.isbytes THEN x.v ELSE <<x.v>>

\* tokens = [b if isinstance(b, bytes) else bytes([b]) for b in line]
line_tokens(line) == [n \in 1..Len(line) |-> as_bytes(line[n])]

build_vocab(bc) ==
    LET RECURSIVE inner(_, _, _)
        inner(toks, k, v) ==
            IF k > Len(toks) - 1 THEN v
            ELSE LET nv == counter_add(v, toks[k] \o toks[k+1], 1)
                 IN  \* the test makes the evaluator compute nv before it recurses
                     IF Len(nv) > 0 THEN inner(toks, k + 1, nv) ELSE nv
        RECURSIVE outer(_, _)
        outer(l, v) ==
            IF l > Len(bc) THEN v
            ELSE LET nv == inner(line_tokens(bc[l]), 1, v)
                 IN  IF Len(nv) >= 0 THEN outer(l + 1, nv) ELSE nv
    IN outer(1, <<>>)

\* isinstance(item, (list, tuple)) is false of every int and bytes item, so each
\* item is appended
flatten(seq) == [k \in 1..Len(seq) |-> seq[k]]

\* a line in which only the first occurrence of best_pair is merged
merge_line_first_only(line, best_pair) ==
    LET RECURSIVE loop(_, _, _)
        loop(k, new_line, done) ==
            IF k > Len(line) THEN new_line
            ELSE LET a == as_bytes(line[k])
                     has_b == k + 1 <= Len(line)
                     merged == ~done /\ has_b /\ a \o as_bytes(line[k+1]) = best_pair
                     nl == IF merged
                           THEN Append(new_line, BytesItem(a \o as_bytes(line[k+1])))
                           ELSE Append(new_line, BytesItem(a))
                 IN  IF Len(nl) > 0
                     THEN loop(IF merged THEN k + 2 ELSE k + 1, nl, done \/ merged)
                     ELSE nl
    IN loop(1, <<>>, FALSE)

\* the while loop of merge_vocab over one line
merge_line(line, best_pair) ==
    LET RECURSIVE loop(_, _)
        loop(k, new_line) ==
            IF k > Len(line) THEN new_line
            ELSE LET a == as_bytes(line[k])
                     has_b == k + 1 <= Len(line)
                     merged == has_b /\ as_bytes(line[k+1]) # <<>>
                                     /\ a \o as_bytes(line[k+1]) = best_pair
                     nl == IF merged
                           THEN Append(new_line, BytesItem(a \o as_bytes(line[k+1])))
                           ELSE Append(new_line, BytesItem(a))
                 IN  IF Len(nl) > 0 THEN loop(IF merged THEN k + 2 ELSE k + 1, nl) ELSE nl
    IN loop(1, <<>>)

\* a corpus whose last line is taken over without merging
merge_corpus_but_last(bc, best_pair) ==
    [l \in 1..Len(bc) |->
        IF l = Len(bc) THEN bc[l] ELSE flatten(merge_line(bc[l], best_pair))]

\* new_corpus, then byte_corpus = [flatten(line) for line in new_corpus]
merge_corpus(bc, best_pair) ==
    [l \in 1..Len(bc) |-> flatten(merge_line(bc[l], best_pair))]

\* max(pair_freq, key = pair_freq.get)
max_pair_freq(d) == first_max_loop(d, 2, 1)

---------------------------------------------------------------------------
(* The learners as state machines *)

NoReturn == [kind |-> "none", value |-> <<>>]

btIdle == text = <<>> /\ merge_list = <<>> /\ bt_tokens = <<>> /\ bt_k = 0
wpIdle == word = <<>> /\ wp_vocab = {} /\ wp_tokens = <<>> /\ wp_i = 0 /\ wp_spans = <<>>
nbIdle ==
    /\ g_vocab = <<>> /\ sentence = <<>> /\ encoded = <<>>
    /\ vocab_size = 0 /\ token_ids = <<>>
learnIdle ==
    /\ tokens = <<>> /\ num_merges = 0 /\ i = 0 /\ vocab = <<>> /\ byte_corpus = <<>>
    /\ pairs = <<>> /\ counted = <<>> /\ best = <<>> /\ merges = <<>> /\ out = <<>>
    /\ ret = NoReturn
    /\ hist = <<>>

LearnInit ==
    /\ \/ /\ prog \in {"learn_bpe", "train_wordpiece"}
          /\ tokens \in SeqsUpTo(CorpusWords, MaxWords) \cup SeqsUpTo(MarkerCharWords, MaxWords)
          /\ num_merges \in 0..MaxMerges
       \/ /\ prog = "merge_vocab"
          /\ tokens \in SeqsUpTo(Sentences, MaxWords)
          /\ num_merges \in 0..MaxMerges
       \/ /\ prog = "learn_bpe"
          /\ tokens = SampleTokens
          /\ num_merges = DefaultNumMerges
       \/ /\ prog = "train_wordpiece"
          /\ tokens = SampleWordpieceCorpus
          /\ num_merges = WordpieceNumMerges
       \/ /\ prog = "merge_vocab"
          /\ tokens = SampleByteCorpus
          /\ num_merges = ByteNumMerges
    /\ pc = "start" /\ i = 0 /\ vocab = <<>> /\ byte_corpus = <<>>
    /\ pairs = <<>> /\ counted = <<>> /\ best = <<>> /\ merges = <<>> /\ out = <<>>
    /\ ret = NoReturn
    /\ hist = <<>>
    \* the cell before: vocab = get_vocab(tokens), the global one
    /\ g_vocab = IF prog = "learn_bpe" THEN get_vocab(tokens) ELSE <<>>
    /\ sentence = <<>> /\ encoded = <<>> /\ vocab_size = 0 /\ token_ids = <<>>
    /\ btIdle /\ wpIdle

\* the cell "Merge the top frequent pair once", run before learn_bpe is called:
\* most_freq = pairs.most_common(1)[0][0]; vocab = merge_vocab(most_freq, vocab)
nb_merge_once ==
    /\ prog = "learn_bpe" /\ pc = "start"
    /\ g_vocab = get_vocab(tokens)
    /\ get_stats(g_vocab) # <<>>
    /\ LET most_freq == most_common_1(get_stats(g_vocab))
       IN g_vocab' = merge_vocab(most_freq, g_vocab)
    /\ UNCHANGED <<learnVars, btVars, wpVars, sentence, encoded, vocab_size, token_ids>>

\* learn_bpe that goes on from the global vocab
bpe_start_from_global ==
    /\ prog = "learn_bpe" /\ pc = "start"
    /\ vocab' = g_vocab
    /\ pc' = "loop"
    /\ UNCHANGED <<prog, tokens, num_merges, i, byte_corpus, pairs, counted, best, merges, out,
                   ret, hist, btVars, wpVars, nbVars>>

\* learn_bpe: vocab = get_vocab(tokens)
bpe_start ==
    /\ prog = "learn_bpe" /\ pc = "start"
    /\ vocab' = get_vocab(tokens)
    /\ pc' = "loop"
    /\ UNCHANGED <<prog, tokens, num_merges, i, byte_corpus, pairs, counted, best, merges, out,
                   ret, hist, btVars, wpVars, nbVars>>

\* one iteration of for i in range(num_merges)
bpe_iter ==
    /\ prog = "learn_bpe" /\ pc = "loop" /\ range_next(i, num_merges)
    /\ LET ps == get_stats(vocab)
       IN /\ pairs' = ps
          /\ counted' = <<vocab>>
          /\ IF ps = <<>>
             THEN /\ pc' = "return"    \* break
                  /\ UNCHANGED <<i, vocab, best, out, hist>>
             ELSE LET b == most_common_1(ps)
                      new_vocab == merge_vocab(b, vocab)
                  IN /\ best' = b
                     /\ vocab' = new_vocab
                     /\ out' = Append(out, <<i + 1, b,
                                    [k \in 1..Len(new_vocab) |-> new_vocab[k][1]]>>)
                     /\ hist' = Append(hist, <<vocab, b>>)
                     /\ i' = i + 1
                     /\ pc' = "loop"
    /\ UNCHANGED <<prog, tokens, num_merges, byte_corpus, merges, ret, btVars, wpVars, nbVars>>

\* range(num_merges) is exhausted
bpe_exhausted ==
    /\ prog = "learn_bpe" /\ pc = "loop" /\ ~range_next(i, num_merges)
    /\ pc' = "return"
    /\ UNCHANGED <<prog, tokens, num_merges, i, vocab, byte_corpus, pairs, counted, best,
                   merges,
                   out, ret, hist, btVars, wpVars, nbVars>>

\* return vocab
bpe_return ==
    /\ prog = "learn_bpe" /\ pc = "return"
    /\ ret' = [kind |-> "vocab", value |-> vocab]
    /\ pc' = "done"
    /\ UNCHANGED <<prog, tokens, num_merges, i, vocab, byte_corpus, pairs, counted, best,
                   merges,
                   out, hist, btVars, wpVars, nbVars>>

\* train_wordpiece: vocab = build_initial_vocab(corpus)
wp_start ==
    /\ prog = "train_wordpiece" /\ pc = "start"
    /\ vocab' = build_initial_vocab(tokens)
    /\ pc' = "loop"
    /\ UNCHANGED <<prog, tokens, num_merges, i, byte_corpus, pairs, counted, best, merges, out,
                   ret, hist, btVars, wpVars, nbVars>>

wp_iter ==
    /\ prog = "train_wordpiece" /\ pc = "loop" /\ range_next(i, num_merges)
    /\ LET ps == wp_get_stats(vocab)
       IN /\ pairs' = ps
          /\ counted' = <<vocab>>
          /\ IF ps = <<>>
             THEN /\ pc' = "return"    \* break
                  /\ UNCHANGED <<i, vocab, best, out, hist>>
             ELSE LET b == max_by_get(ps)
                  IN /\ best' = b
                     /\ vocab' = wp_merge_vocab(b, vocab)
                     /\ out' = Append(out, <<i + 1, b, join(<<>>, b)>>)
                     /\ hist' = Append(hist, <<vocab, b>>)
                     /\ i' = i + 1
                     /\ pc' = "loop"
    /\ UNCHANGED <<prog, tokens, num_merges, byte_corpus, merges, ret, btVars, wpVars, nbVars>>

wp_exhausted ==
    /\ prog = "train_wordpiece" /\ pc = "loop" /\ ~range_next(i, num_merges)
    /\ pc' = "return"
    /\ UNCHANGED <<prog, tokens, num_merges, i, vocab, byte_corpus, pairs, counted, best,
                   merges,
                   out, ret, hist, btVars, wpVars, nbVars>>

wp_return ==
    /\ prog = "train_wordpiece" /\ pc = "return"
    /\ ret' = [kind |-> "vocab", value |-> vocab]
    /\ pc' = "done"
    /\ UNCHANGED <<prog, tokens, num_merges, i, vocab, byte_corpus, pairs, counted, best,
                   merges,
                   out, hist, btVars, wpVars, nbVars>>

\* byte_corpus = get_byte_corpus(corpus); merge_vocab(byte_corpus, num_merges): merges = []
byte_start ==
    /\ prog = "merge_vocab" /\ pc = "start"
    /\ byte_corpus' = get_byte_corpus(tokens)
    /\ merges' = <<>>
    /\ pc' = "loop"
    /\ UNCHANGED <<prog, tokens, num_merges, i, vocab, pairs, counted, best, out, ret, hist,
                   btVars, wpVars, nbVars>>

\* one iteration of for _ in range(num_merges)
byte_iter ==
    /\ prog = "merge_vocab" /\ pc = "loop" /\ range_next(i, num_merges)
    /\ LET pair_freq == build_vocab(byte_corpus)
       IN /\ pairs' = pair_freq
          /\ counted' = <<byte_corpus>>
          /\ IF pair_freq = <<>>
             THEN /\ pc' = "return"    \* break
                  /\ UNCHANGED <<i, byte_corpus, best, merges, hist>>
             ELSE LET best_pair == max_pair_freq(pair_freq)
                  IN /\ best' = best_pair
                     /\ merges' = list_append(merges, best_pair)
                     /\ byte_corpus' = merge_corpus(byte_corpus, best_pair)
                     /\ hist' = Append(hist, <<byte_corpus, best_pair>>)
                     /\ i' = i + 1
                     /\ pc' = "loop"
    /\ UNCHANGED <<prog, tokens, num_merges, vocab, out, ret, btVars, wpVars, nbVars>>

byte_exhausted ==
    /\ prog = "merge_vocab" /\ pc = "loop" /\ ~range_next(i, num_merges)
    /\ pc' = "return"
    /\ UNCHANGED <<prog, tokens, num_merges, i, vocab, byte_corpus, pairs, counted, best,
                   merges,
                   out, ret, hist, btVars, wpVars, nbVars>>

\* return merges
byte_return ==
    /\ prog = "merge_vocab" /\ pc = "return"
    /\ ret' = [kind |-> "merges", value |-> merges]
    /\ pc' = "done"
    /\ UNCHANGED <<prog, tokens, num_merges, i, vocab, byte_corpus, pairs, counted, best,
                   merges,
                   out, hist, btVars, wpVars, nbVars>>

LearnNext ==
    \/ nb_merge_once
    \/ bpe_start \/ bpe_iter \/ bpe_exhausted \/ bpe_return
    \/ wp_start \/ wp_iter \/ wp_exhausted \/ wp_return
    \/ byte_start \/ byte_iter \/ byte_exhausted \/ byte_return

Spec == LearnInit /\ [][LearnNext]_vars

---------------------------------------------------------------------------
(* byte_tokenize *)

\* the while loop of byte_tokenize for one merge, tokens updated in place
replay_merge_prefix(toks, merge) ==
    LET RECURSIVE loop(_, _)
        loop(t, k) ==
            IF k <= Len(t) - 1
            THEN IF starts_with(merge, t[k])
                 THEN loop(SubSeq(t, 1, k - 1) \o <<t[k] \o t[k+1]>> \o SubSeq(t, k + 2, Len(t)), k)
                 ELSE loop(t, k + 1)
            ELSE t
    IN loop(toks, 1)

replay_merge_lossy(toks, merge) ==
    LET RECURSIVE loop(_, _)
        loop(t, k) ==
            IF k <= Len(t) - 1
            THEN IF t[k] \o t[k+1] = merge
                 THEN loop(SubSeq(t, 1, k) \o SubSeq(t, k + 2, Len(t)), k + 1)
                 ELSE loop(t, k + 1)
            ELSE t
    IN loop(toks, 1)

replay_merge(toks, merge) ==
    LET RECURSIVE loop(_, _)
        loop(t, k) ==
            IF k <= Len(t) - 1
            THEN IF t[k] \o t[k+1] = merge
                 THEN \* tokens[i] = tokens[i] + tokens[i+1]; del tokens[i+1]
                      loop(SubSeq(t, 1, k - 1) \o <<t[k] \o t[k+1]>> \o SubSeq(t, k + 2, Len(t)), k)
                 ELSE loop(t, k + 1)
            ELSE t
    IN loop(toks, 1)

\* byte_tokenize(text, merges) as a whole
byte_tokenize(t, ms) ==
    LET input_bytes == encode_utf8(t)
        RECURSIVE loop(_, _)
        loop(toks, k) ==
            IF k > Len(ms) THEN toks
            ELSE LET nt == replay_merge(toks, ms[k])
                 IN  IF Len(nt) >= 0 THEN loop(nt, k + 1) ELSE nt
    IN loop([k \in 1..Len(input_bytes) |-> <<input_bytes[k]>>], 1)

BtInit ==
    /\ prog = "byte_tokenize" /\ pc = "start"
    /\ \/ /\ text \in SeqsUpTo(CodePoints, MaxTextLen)
          /\ merge_list \in SeqsUpTo(CandidateMerges, MaxMergeList)
       \/ /\ text = SampleText
          /\ merge_list = SampleByteMerges
    /\ bt_tokens = <<>> /\ bt_k = 0
    /\ learnIdle /\ wpIdle /\ nbIdle

\* input_bytes = list(text.encode("utf-8")); tokens = [bytes([b]) for b in input_bytes]
bt_start ==
    /\ prog = "byte_tokenize" /\ pc = "start"
    /\ LET input_bytes == encode_utf8(text)
       IN bt_tokens' = [k \in 1..Len(input_bytes) |-> <<input_bytes[k]>>]
    /\ pc' = "loop"
    /\ UNCHANGED <<prog, tokens, num_merges, i, vocab, byte_corpus, pairs, counted, best,
                   merges, out, ret, hist, text, merge_list, bt_k, wpVars, nbVars>>

\* one iteration of for merge in merges
bt_merge ==
    /\ prog = "byte_tokenize" /\ pc = "loop" /\ bt_k < Len(merge_list)
    /\ bt_tokens' = replay_merge(bt_tokens, merge_list[bt_k + 1])
    /\ bt_k' = bt_k + 1
    /\ UNCHANGED <<prog, tokens, num_merges, pc, i, vocab, byte_corpus, pairs, counted, best,
                   merges, out, ret, hist, text, merge_list, wpVars, nbVars>>

\* return tokens
bt_return ==
    /\ prog = "byte_tokenize" /\ pc = "loop" /\ bt_k = Len(merge_list)
    /\ ret' = [kind |-> "tokens", value |-> bt_tokens]
    /\ pc' = "done"
    /\ UNCHANGED <<prog, tokens, num_merges, i, vocab, byte_corpus, pairs, counted, best,
                   merges, out, hist, btVars, wpVars, nbVars>>

BtNext == bt_start \/ bt_merge \/ bt_return

SpecByteTokenize == BtInit /\ [][BtNext]_vars

---------------------------------------------------------------------------
(* tokenize_wordpiece *)

UNK == <<"[", "U", "N", "K", "]">>

\* sub = word[i:j], with '##' in front when i > 0 (i, j as in the code, from 0)
subword(w, i0, j0) == (IF i0 > 0 THEN <<"#", "#">> ELSE <<>>) \o SubSeq(w, i0 + 1, j0)

\* range(len(word), i + 1, -1): the one-character substring is never tried
find_match_skip_single(w, v, i0) ==
    LET RECURSIVE loop(_)
        loop(j0) ==
            IF j0 <= i0 + 1 THEN -1
            ELSE IF subword(w, i0, j0) \in v THEN j0 ELSE loop(j0 - 1)
    IN loop(Len(w))

find_shortest_match(w, v, i0) ==
    LET RECURSIVE loop(_)
        loop(j0) ==
            IF j0 > Len(w) THEN -1
            ELSE IF subword(w, i0, j0) \in v THEN j0 ELSE loop(j0 + 1)
    IN loop(i0 + 1)

\* for j in range(len(word), i, -1): the j at which the loop breaks, -1 when it
\* runs to its end (the else branch)
find_match(w, v, i0) ==
    LET RECURSIVE loop(_)
        loop(j0) ==
            IF j0 <= i0 THEN -1
            ELSE IF subword(w, i0, j0) \in v THEN j0 ELSE loop(j0 - 1)
    IN loop(Len(w))

\* words that contain the text of the unknown marker, and a vocabulary that may
\* hold that text as a subword
MarkerWords == { UNK, UNK \o <<"b">>, <<"a">> \o UNK \o <<"b">> }
MarkerSubwords == { UNK, <<"#", "#">> \o UNK, <<"a">>, <<"#", "#", "b">> }

TwInit ==
    /\ prog = "tokenize_wordpiece" /\ pc = "loop"
    /\ \/ /\ word \in SeqsUpTo(WordChars, MaxWordLen)
          /\ wp_vocab \in SUBSET CandidateSubwords
       \/ /\ word \in MarkerWords
          /\ wp_vocab \in SUBSET MarkerSubwords
       \/ /\ word = SampleWord
          /\ wp_vocab = SampleSubwords
    /\ wp_tokens = <<>> /\ wp_i = 0 /\ wp_spans = <<>>
    /\ learnIdle /\ btIdle /\ nbIdle

\* one iteration of while i < len(word)
tw_iter ==
    /\ prog = "tokenize_wordpiece" /\ pc = "loop" /\ wp_i < Len(word)
    /\ LET j0 == find_match(word, wp_vocab, wp_i)
       IN IF j0 # -1
          THEN /\ wp_tokens' = Append(wp_tokens, subword(word, wp_i, j0))
               /\ wp_i' = j0
               /\ wp_spans' = Append(wp_spans, <<wp_i, j0>>)
               /\ pc' = "loop"
          ELSE /\ wp_tokens' = Append(wp_tokens, UNK)
               /\ wp_spans' = Append(wp_spans, <<wp_i, wp_i>>)
               /\ pc' = "return"    \* break
               /\ UNCHANGED wp_i
    /\ UNCHANGED <<prog, tokens, num_merges, i, vocab, byte_corpus, pairs, counted, best,
                   merges, out, ret, hist, btVars, word, wp_vocab, nbVars>>

\* i < len(word) fails
tw_exhausted ==
    /\ prog = "tokenize_wordpiece" /\ pc = "loop" /\ ~(wp_i < Len(word))
    /\ pc' = "return"
    /\ UNCHANGED <<prog, tokens, num_merges, i, vocab, byte_corpus, pairs, counted, best,
                   merges, out, ret, hist, btVars, wpVars, nbVars>>

\* return tokens
tw_return ==
    /\ prog = "tokenize_wordpiece" /\ pc = "return"
    /\ ret' = [kind |-> "tokens", value |-> wp_tokens]
    /\ pc' = "done"
    /\ UNCHANGED <<prog, tokens, num_merges, i, vocab, byte_corpus, pairs, counted, best,
                   merges, out, hist, btVars, wpVars, nbVars>>

TwNext == tw_iter \/ tw_exhausted \/ tw_return

SpecTokenizeWordpiece == TwInit /\ [][TwNext]_vars

---------------------------------------------------------------------------
(* Word-level tokenizer *)

Digits == << "0", "1", "2", "3", "4", "5", "6", "7", "8", "9" >>
UpperCase ==
    << "A", "B", "C", "D", "E", "F", "G", "H", "I", "J", "K", "L", "M",
       "N", "O", "P", "Q", "R", "S", "T", "U", "V", "W", "X", "Y", "Z" >>
LowerCase ==
    << "a", "b", "c", "d", "e", "f", "g", "h", "i", "j", "k", "l", "m",
       "n", "o", "p", "q", "r", "s", "t", "u", "v", "w", "x", "y", "z" >>
Elems(q) == { q[k] : k \in 1..Len(q) }

\* the characters of [a-zA-Z0-9], in code point order
Alnum == Digits \o UpperCase \o LowerCase
is_alnum(c) == c \in Elems(Alnum)
ord(c) == CHOOSE k \in 1..Len(Alnum) : Alnum[k] = c

\* text.lower()
lower_char(c) ==
    IF c \in Elems(UpperCase)
    THEN LowerCase[CHOOSE k \in 1..Len(UpperCase) : UpperCase[k] = c]
    ELSE c
lower(s) == [k \in 1..Len(s) |-> lower_char(s[k])]

\* re.sub(r'[^a-zA-Z0-9\s]', '', text): the characters outside the class are deleted
is_kept(c) == is_alnum(c) \/ is_space(c)
re_sub_non_alnum(s) == SelectSeq(s, is_kept)

preprocess(t) == split(re_sub_non_alnum(lower(t)))

\* a < b on str: lexicographic by code point, a proper prefix first
str_lt(a, b) ==
    \E k \in 1..Len(b) :
        /\ \A j \in 1..(k-1) : j <= Len(a) /\ a[j] = b[j]
        /\ (k > Len(a) \/ ord(a[k]) < ord(b[k]))

\* the distinct tokens in the order of their first occurrence
first_seen_order(toks) ==
    LET firsts == { k \in 1..Len(toks) : \A j \in 1..(k-1) : toks[j] # toks[k] }
        nth(j) == CHOOSE k \in firsts : Cardinality({ m \in firsts : m <= k }) = j
    IN [j \in 1..Cardinality(firsts) |-> toks[nth(j)]]
\* sorted(set(tokens))
sorted_set(toks) ==
    LET S == Elems(toks)
    IN [k \in 1..Cardinality(S) |->
           CHOOSE w \in S : Cardinality({ u \in S : str_lt(u, w) }) = k - 1]

\* {word : idx for idx, word in enumerate(sorted(set(tokens)))}
build_word_vocab(toks) ==
    LET ws == sorted_set(toks)
    IN [k \in 1..Len(ws) |-> <<ws[k], k - 1>>]

\* d.get(word, 0)
lookup_or_zero(d, key) == IF key \in Keys(d) THEN dict_get(d, key) ELSE 0
\* d[word]: the value, or KeyError(word)
lookup(d, key) ==
    IF key \in Keys(d)
    THEN [kind |-> "value", value |-> dict_get(d, key)]
    ELSE [kind |-> "KeyError", value |-> key]

\* [vocab[word] for word in tokens]: the ids, or the first KeyError
encode_or_zero(toks, v) ==
    [kind |-> "value", value |-> [k \in 1..Len(toks) |-> lookup_or_zero(v, toks[k])]]
encode(toks, v) ==
    LET missing == { k \in 1..Len(toks) : lookup(v, toks[k]).kind = "KeyError" }
    IN IF missing = {}
       THEN [kind |-> "value", value |-> [k \in 1..Len(toks) |-> lookup(v, toks[k]).value]]
       ELSE lookup(v, toks[CHOOSE k \in missing : \A m \in missing : k <= m])

WtInit ==
    /\ prog = "word_tokenizer"
    /\ text \in SeqsUpTo(TextChars, MaxTextChars) \cup {SampleWordText}
    /\ pc = "preprocess"
    /\ tokens = <<>> /\ num_merges = 0 /\ i = 0 /\ vocab = <<>> /\ byte_corpus = <<>>
    /\ pairs = <<>> /\ counted = <<>> /\ best = <<>> /\ merges = <<>> /\ out = <<>>
    /\ ret = NoReturn
    /\ hist = <<>>
    /\ merge_list = <<>> /\ bt_tokens = <<>> /\ bt_k = 0
    /\ wpIdle /\ nbIdle

\* tokens = preprocess(text)
wt_preprocess ==
    /\ prog = "word_tokenizer" /\ pc = "preprocess"
    /\ tokens' = preprocess(text)
    /\ pc' = "vocab"
    /\ UNCHANGED <<prog, num_merges, i, vocab, byte_corpus, pairs, counted, best,
                   merges, out, ret, hist, btVars, wpVars, nbVars>>

\* vocab = {...}; hist keeps the tokens it was built from
wt_build_vocab ==
    /\ prog = "word_tokenizer" /\ pc = "vocab"
    /\ vocab' = build_word_vocab(tokens)
    /\ hist' = <<tokens>>
    /\ pc' = "encode"
    /\ UNCHANGED <<prog, tokens, num_merges, i, byte_corpus, pairs, counted, best,
                   merges, out, ret, btVars, wpVars, nbVars>>

\* the text and preprocess cells are run again on another text, the vocabulary is kept
wt_retokenize ==
    /\ prog = "word_tokenizer" /\ pc = "encode"
    /\ \E t \in OtherTexts :
          /\ text' = t
          /\ tokens' = preprocess(t)
    /\ pc' = "encode_other"
    /\ UNCHANGED <<prog, num_merges, i, vocab, byte_corpus, pairs, counted, best,
                   merges, out, ret, hist, merge_list, bt_tokens, bt_k, wpVars, nbVars>>

\* encoded = [vocab[word] for word in tokens]; a KeyError leaves encoded unassigned
wt_encode ==
    /\ prog = "word_tokenizer" /\ pc \in {"encode", "encode_other"}
    /\ sentence' = tokens
    /\ LET r == encode(tokens, vocab)
       IN IF r.kind = "value"
          THEN /\ encoded' = r.value
               /\ pc' = "done"
               /\ UNCHANGED ret
          ELSE /\ ret' = r
               /\ pc' = "raised"
               /\ UNCHANGED encoded
    /\ UNCHANGED <<prog, tokens, num_merges, i, vocab, byte_corpus, pairs, counted, best,
                   merges, out, hist, btVars, wpVars, g_vocab, vocab_size, token_ids>>

WtNext == wt_preprocess \/ wt_build_vocab \/ wt_retokenize \/ wt_encode

SpecWordTokenizer == WtInit /\ [][WtNext]_vars

---------------------------------------------------------------------------
(* Token embeddings: vocabulary of a word list, ids, embedding lookup *)

\* dict(zip(text, range(len(text)))): a key stays where it was first inserted,
\* a later pair with the same key overwrites its value
dict_zip(ws) ==
    LET firsts == { k \in 1..Len(ws) : \A j \in 1..(k-1) : ws[j] # ws[k] }
        nth(j) == CHOOSE k \in firsts : Cardinality({ m \in firsts : m <= k }) = j
        last(w) == CHOOSE k \in 1..Len(ws) :
                      ws[k] = w /\ \A m \in (k+1)..Len(ws) : ws[m] # w
    IN [j \in 1..Cardinality(firsts) |-> <<ws[nth(j)], last(ws[nth(j)]) - 1>>]

\* nn.Embedding(num_embeddings = n, ...)(ids): the rows, or IndexError
embedding_lookup(n, ids) ==
    LET bad == { k \in 1..Len(ids) : ids[k] < 0 \/ ids[k] >= n }
    IN IF bad = {}
       THEN [kind |-> "rows", value |-> ids]
       ELSE [kind |-> "IndexError", value |-> ids[CHOOSE k \in bad : \A m \in bad : k <= m]]

TeInit ==
    /\ prog = "token_embeddings"
    /\ text \in SeqsUpTo(EmbWords, MaxWords) \cup {SampleEmbText, SampleCombineText}
    /\ pc = "vocab"
    /\ tokens = <<>> /\ num_merges = 0 /\ i = 0 /\ vocab = <<>> /\ byte_corpus = <<>>
    /\ pairs = <<>> /\ counted = <<>> /\ best = <<>> /\ merges = <<>> /\ out = <<>>
    /\ ret = NoReturn
    /\ hist = <<>>
    /\ merge_list = <<>> /\ bt_tokens = <<>> /\ bt_k = 0
    /\ wpIdle /\ nbIdle

\* vocab = dict(zip(text, range(len(text)))); vocab_size = len(vocab)
te_build_vocab ==
    /\ prog = "token_embeddings" /\ pc = "vocab"
    /\ vocab' = dict_zip(text)
    /\ vocab_size' = Len(dict_zip(text))
    /\ pc' = "ids"
    /\ UNCHANGED <<prog, tokens, num_merges, i, byte_corpus, pairs, counted, best,
                   merges, out, ret, hist, btVars, wpVars, g_vocab, sentence, encoded,
                   token_ids>>

\* sentence = words of the text; token_ids = [vocab[word] for word in sentence]
te_token_ids ==
    /\ prog = "token_embeddings" /\ pc = "ids"
    /\ \E sent \in SeqsUpTo(Elems(text), MaxWords) \cup {text, SampleEmbSentence} :
          /\ \A k \in 1..Len(sent) : sent[k] \in Keys(vocab)
          /\ sentence' = sent
          /\ token_ids' = [k \in 1..Len(sent) |-> dict_get(vocab, sent[k])]
    /\ pc' = "lookup"
    /\ UNCHANGED <<prog, tokens, num_merges, i, vocab, byte_corpus, pairs, counted, best,
                   merges, out, ret, hist, btVars, wpVars, g_vocab, encoded, vocab_size>>

\* token_embeddings(token_ids), the layer having vocab_size rows
te_lookup ==
    /\ prog = "token_embeddings" /\ pc = "lookup"
    /\ ret' = embedding_lookup(vocab_size, token_ids)
    /\ pc' = IF embedding_lookup(vocab_size, token_ids).kind = "rows"
             THEN "done" ELSE "raised"
    /\ UNCHANGED <<prog, tokens, num_merges, i, vocab, byte_corpus, pairs, counted, best,
                   merges, out, hist, btVars, wpVars, nbVars>>

TeNext == te_build_vocab \/ te_token_ids \/ te_lookup

SpecTokenEmbeddings == TeInit /\ [][TeNext]_vars

---------------------------------------------------------------------------
(* What the claims speak of, stated without the loops of the code *)

RECURSIVE SumSeq(_)
SumSeq(q) == IF q = <<>> THEN 0 ELSE Head(q) + SumSeq(Tail(q))

IsLearnerOfSymbols == prog \in {"learn_bpe", "train_wordpiece"}
IsByteLearner == prog = "merge_vocab"

\* the symbols of vocabulary entry e
Symbols(v, e) == split(v[e][1])
SymbolSet(v) == UNION { {Symbols(v, e)[p] : p \in 1..Len(Symbols(v, e))} : e \in 1..Len(v) }

\* positions of entry e where symbol q[1] is immediately followed by symbol q[2]
Positions(v, e, q) ==
    { p \in 1..(Len(Symbols(v, e)) - 1) :
          Symbols(v, e)[p] = q[1] /\ Symbols(v, e)[p + 1] = q[2] }
PairCount(v, q) ==
    SumSeq([e \in 1..Len(v) |-> v[e][2] * Cardinality(Positions(v, e, q))])
AdjacentPairs(v) ==
    UNION { { <<Symbols(v, e)[p], Symbols(v, e)[p + 1]>> : p \in 1..(Len(Symbols(v, e)) - 1) } :
            e \in 1..Len(v) }

\* the same for a byte corpus: the tokens of line l, adjacent token pairs, and
\* the places where two adjacent tokens concatenate to the byte string c
LineBytes(bc, l) == [n \in 1..Len(bc[l]) |-> IF bc[l][n].isbytes THEN bc[l][n].v ELSE <<bc[l][n].v>>]
BytePositions(bc, l, c) ==
    { p \in 1..(Len(bc[l]) - 1) : LineBytes(bc, l)[p] \o LineBytes(bc, l)[p + 1] = c }
ByteCount(bc, c) == SumSeq([l \in 1..Len(bc) |-> Cardinality(BytePositions(bc, l, c))])
ByteAdjacent(bc) ==
    UNION { { LineBytes(bc, l)[p] \o LineBytes(bc, l)[p + 1] : p \in 1..(Len(bc[l]) - 1) } :
            l \in 1..Len(bc) }
BytePairPositions(bc, l, q) ==
    { p \in 1..(Len(bc[l]) - 1) : LineBytes(bc, l)[p] = q[1] /\ LineBytes(bc, l)[p + 1] = q[2] }
BytePairCount(bc, q) == SumSeq([l \in 1..Len(bc) |-> Cardinality(BytePairPositions(bc, l, q))])
ByteAdjacentPairs(bc) ==
    UNION { { <<LineBytes(bc, l)[p], LineBytes(bc, l)[p + 1]>> : p \in 1..(Len(bc[l]) - 1) } :
            l \in 1..Len(bc) }

\* the last merge step: what it started from and what it merged
Merged == hist # <<>>
Before == hist[Len(hist)][1]
MergedPair == hist[Len(hist)][2]
MergesPerformed == [k \in 1..Len(hist) |-> hist[k][2]]

---------------------------------------------------------------------------
(* C1: greedy merge selection.  In every merge step of the three learners the *)
(* pair that is merged is an adjacent pair of the current vocabulary / corpus *)
(* and no adjacent pair has a strictly larger count.                          *)
C1_GreedyMergeSelection ==
    Merged =>
        IF IsByteLearner
        THEN /\ \E p \in ByteAdjacentPairs(Before) : p[1] \o p[2] = MergedPair
             /\ \A p \in ByteAdjacentPairs(Before) :
                    p[1] \o p[2] = MergedPair =>
                        \A q \in ByteAdjacentPairs(Before) :
                            BytePairCount(Before, q) <= BytePairCount(Before, p)
        ELSE /\ MergedPair \in AdjacentPairs(Before)
             /\ \A q \in AdjacentPairs(Before) :
                    PairCount(Before, q) <= PairCount(Before, MergedPair)

\* a merge step that had a strictly rarer pair to choose from, after an earlier merge
C1_Witness ==
    /\ Len(hist) >= 2
    /\ IF IsByteLearner
       THEN \E q \in ByteAdjacent(Before) : ByteCount(Before, q) < ByteCount(Before, MergedPair)
       ELSE \E q \in AdjacentPairs(Before) : PairCount(Before, q) < PairCount(Before, MergedPair)

---------------------------------------------------------------------------
(* C2: get_stats counts adjacent symbol pairs weighted by word frequency: the *)
(* count of pair (x, y) is the sum over entries of entry count times the      *)
(* number of positions where x is immediately followed by y, and a pair with  *)
(* no such position is absent.                                                *)
C2_GetStatsWeightedCounts ==
    (IsLearnerOfSymbols /\ counted # <<>>) =>
        LET v == counted[1]
        IN /\ \A x \in SymbolSet(v) : \A y \in SymbolSet(v) :
                  IF PairCount(v, <<x, y>>) = 0
                  THEN <<x, y>> \notin Keys(pairs)
                  ELSE /\ <<x, y>> \in Keys(pairs)
                       /\ dict_get(pairs, <<x, y>>) = PairCount(v, <<x, y>>)
           /\ Keys(pairs) \subseteq SymbolSet(v) \X SymbolSet(v)
           /\ Cardinality(Keys(pairs)) = Len(pairs)

\* statistics of a vocabulary with an entry of count 2 and a pair that overlaps itself
C2_Witness ==
    /\ IsLearnerOfSymbols /\ counted # <<>>
    /\ \E e \in 1..Len(counted[1]) :
           /\ counted[1][e][2] >= 2
           /\ \E q \in Keys(pairs) : Cardinality(Positions(counted[1], e, q)) >= 2

---------------------------------------------------------------------------
\* the merge on symbols: left to right, x followed by y becomes xy
RECURSIVE MergeSymbols(_, _)
MergeSymbols(syms, q) ==
    IF syms = <<>> THEN <<>>
    ELSE IF Len(syms) >= 2 /\ syms[1] = q[1] /\ syms[2] = q[2]
         THEN <<q[1] \o q[2]>> \o MergeSymbols(SubSeq(syms, 3, Len(syms)), q)
         ELSE <<syms[1]>> \o MergeSymbols(Tail(syms), q)

(* C3: merge_vocab replaces only full occurrences of the bigram: an entry     *)
(* changes only where a whole symbol x is immediately followed by a whole     *)
(* symbol y, which become the symbol xy; every symbol of a resulting entry is *)
(* a symbol of the input entry or xy.  The code does not keep this: see the   *)
(* run on the corpus a, aab, aa.                                              *)
C3_MergeOnlyWholeSymbols ==
    (IsLearnerOfSymbols /\ Merged) =>
        /\ Len(vocab) = Len(Before)
        /\ \A e \in 1..Len(vocab) :
               /\ Symbols(vocab, e) = MergeSymbols(Symbols(Before, e), MergedPair)
               /\ \A p \in 1..Len(Symbols(vocab, e)) :
                      \/ Symbols(vocab, e)[p] = MergedPair[1] \o MergedPair[2]
                      \/ \E n \in 1..Len(Symbols(Before, e)) :
                             Symbols(Before, e)[n] = Symbols(vocab, e)[p]

---------------------------------------------------------------------------
\* c1 c2 ... cn <\w> with single spaces between
ExpectedEntry(w) ==
    [n \in 1..(2 * Len(w) + Len(EOW)) |->
        IF n > 2 * Len(w) THEN EOW[n - 2 * Len(w)]
        ELSE IF n % 2 = 1 THEN w[(n + 1) \div 2] ELSE " "]

InitialVocabulary == IsLearnerOfSymbols /\ pc = "loop" /\ hist = <<>>

(* C4: get_vocab / build_initial_vocab map each corpus word to its characters *)
(* joined by single spaces, followed by the end-of-word symbol as the last    *)
(* symbol; the entry's count is the number of occurrences of the word, and    *)
(* the counts sum to the number of corpus words.                              *)
C4_InitialVocabulary ==
    InitialVocabulary =>
        LET W == { tokens[k] : k \in 1..Len(tokens) }
        IN /\ Len(vocab) = Cardinality(W)
           /\ \A w \in W :
                  /\ ExpectedEntry(w) \in Keys(vocab)
                  /\ dict_get(vocab, ExpectedEntry(w))
                         = Cardinality({ k \in 1..Len(tokens) : tokens[k] = w })
           /\ \A e \in 1..Len(vocab) :
                  /\ Symbols(vocab, e)[Len(Symbols(vocab, e))] = EOW
                  /\ \E k \in 1..Len(tokens) :
                         Symbols(vocab, e) = list_of(tokens[k]) \o <<EOW>>
           /\ SumSeq([e \in 1..Len(vocab) |-> vocab[e][2]]) = Len(tokens)

\* the vocabulary of a corpus with a repeated word and a second word
C4_Witness ==
    /\ InitialVocabulary
    /\ Len(vocab) >= 2
    /\ \E e \in 1..Len(vocab) : vocab[e][2] >= 2

---------------------------------------------------------------------------
\* no entry (line) has two symbols (tokens) side by side
NothingLeftToMerge ==
    IF IsByteLearner
    THEN \A l \in 1..Len(byte_corpus) : Len(byte_corpus[l]) <= 1
    ELSE \A e \in 1..Len(vocab) : Len(Symbols(vocab, e)) <= 1

---------------------------------------------------------------------------
(* C6, as it was claimed: the value returned by each learner is the ordered   *)
(* list of the merges it performed.                                           *)
C6_ReturnsMergeList ==
    pc = "done" => (ret.kind = "merges" /\ ret.value = MergesPerformed)

(* C6, amended: byte-level merge_vocab returns the ordered list of its        *)
(* merges; learn_bpe and train_wordpiece return the final vocabulary and only *)
(* print their merges, one line per merge, in the order performed.            *)
C6_ReturnValue ==
    pc = "done" =>
        IF IsByteLearner
        THEN ret.kind = "merges" /\ ret.value = MergesPerformed
        ELSE /\ ret.kind = "vocab" /\ ret.value = vocab
             /\ Len(out) = Len(hist)
             /\ \A k \in 1..Len(out) : out[k][1] = k /\ out[k][2] = hist[k][2]

\* a byte-level run that returns at least two merges
C6_Witness ==
    pc = "done" /\ IsByteLearner /\ Len(hist) >= 2 /\ hist[1][2] # hist[2][2]

---------------------------------------------------------------------------
\* pair p occurs before every occurrence of pair q
OccursFirst(v, p, q) ==
    \E e \in 1..Len(v) : \E n \in Positions(v, e, p) :
        \A e2 \in 1..Len(v) : \A n2 \in Positions(v, e2, q) :
            e < e2 \/ (e = e2 /\ n < n2)
ByteOccursFirst(bc, c, d) ==
    \E l \in 1..Len(bc) : \E n \in BytePositions(bc, l, c) :
        \A l2 \in 1..Len(bc) : \A n2 \in BytePositions(bc, l2, d) :
            l < l2 \/ (l = l2 /\ n < n2)

(* C7: ties are broken by first occurrence: among the pairs of maximal count  *)
(* the one merged is the one met first when the entries (lines) are scanned   *)
(* in order and each entry left to right; ('l','o') is merged first on the    *)
(* BPE sample corpus and b'He' first on the byte-level sample corpus.         *)
C7_TieBreakFirstOccurrence ==
    Merged =>
        IF IsByteLearner
        THEN /\ \A d \in ByteAdjacent(Before) \ {MergedPair} :
                    ByteCount(Before, d) = ByteCount(Before, MergedPair)
                        => ByteOccursFirst(Before, MergedPair, d)
             /\ tokens = SampleByteCorpus => hist[1][2] = <<72, 101>>
        ELSE /\ \A q \in AdjacentPairs(Before) \ {MergedPair} :
                    PairCount(Before, q) = PairCount(Before, MergedPair)
                        => OccursFirst(Before, MergedPair, q)
             /\ (prog = "learn_bpe" /\ tokens = SampleTokens)
                    => hist[1][2] = << <<"l">>, <<"o">> >>

\* a merge step where another pair had the same, maximal count
C7_Witness ==
    /\ Merged
    /\ IF IsByteLearner
       THEN \E d \in ByteAdjacent(Before) \ {MergedPair} :
                ByteCount(Before, d) = ByteCount(Before, MergedPair)
       ELSE \E q \in AdjacentPairs(Before) \ {MergedPair} :
                PairCount(Before, q) = PairCount(Before, MergedPair)

---------------------------------------------------------------------------
\* UTF-8 of the code points enumerated, from the encoding's table
Utf8Table(c) ==
    CASE c < 128 -> <<c>>
      [] c = 233 -> <<195, 169>>
      [] c = 127757 -> <<240, 159, 140, 141>>
RECURSIVE Utf8Text(_)
Utf8Text(t) == IF t = <<>> THEN <<>> ELSE Utf8Table(Head(t)) \o Utf8Text(Tail(t))
RECURSIVE Concat(_)
Concat(toks) == IF toks = <<>> THEN <<>> ELSE Head(toks) \o Concat(Tail(toks))

IsByteTokenize == prog = "byte_tokenize"

(* C8: byte_tokenize is lossless: after every replayed merge, and at the end, *)
(* the tokens concatenated in order are the UTF-8 bytes of the text.          *)
C8_ByteTokenizeLossless ==
    IsByteTokenize =>
        /\ pc # "start" => Concat(bt_tokens) = Utf8Text(text)
        /\ pc = "done" => Concat(ret.value) = Utf8Text(text)

\* two merges replayed, the second on top of the first, in a text with a two-byte character
C8_Witness ==
    /\ IsByteTokenize /\ pc = "done" /\ bt_k >= 2
    /\ \E n \in 1..Len(bt_tokens) : Len(bt_tokens[n]) >= 3
    /\ \E n \in 1..Len(text) : text[n] >= 128

---------------------------------------------------------------------------
(* C9: byte-level tokenization has no unknown tokens: every token returned by *)
(* byte_tokenize is a single byte of the input or a byte string equal to one  *)
(* of the merges of the list.                                                 *)
C9_NoUnknownTokens ==
    (IsByteTokenize /\ pc # "start") =>
        \A n \in 1..Len(bt_tokens) :
            \/ /\ Len(bt_tokens[n]) = 1
               /\ \E m \in 1..Len(Utf8Text(text)) : bt_tokens[n][1] = Utf8Text(text)[m]
            \/ \E m \in 1..Len(merge_list) : bt_tokens[n] = merge_list[m]

\* a result with a merged token beside a single byte
C9_Witness ==
    /\ IsByteTokenize /\ pc = "done"
    /\ \E n \in 1..Len(bt_tokens) : Len(bt_tokens[n]) >= 2
    /\ \E n \in 1..Len(bt_tokens) : Len(bt_tokens[n]) = 1

---------------------------------------------------------------------------
\* word[i:j] as the vocabulary holds it
Piece(i0, j0) ==
    IF i0 = 0 THEN [n \in 1..(j0 - i0) |-> word[i0 + n]]
    ELSE [n \in 1..(j0 - i0 + 2) |-> IF n <= 2 THEN "#" ELSE word[i0 + n - 2]]

IsTokenizeWordpiece == prog = "tokenize_wordpiece"

(* C10: tokenize_wordpiece is greedy longest-match-first: a token other than  *)
(* '[UNK]' emitted at position i covers word[i:j] for the largest j such that *)
(* word[i:j] (with '##' in front when i > 0) is in the vocabulary, and the    *)
(* next token starts at j.                                                    *)
C10_LongestMatchFirst ==
    IsTokenizeWordpiece =>
        /\ Len(wp_spans) = Len(wp_tokens)
        /\ \A n \in 1..Len(wp_tokens) :
               wp_tokens[n] # UNK =>
                   LET i0 == wp_spans[n][1]
                       j0 == wp_spans[n][2]
                   IN /\ 0 <= i0 /\ i0 < j0 /\ j0 <= Len(word)
                      /\ n = 1 => i0 = 0
                      /\ wp_tokens[n] = Piece(i0, j0)
                      /\ Piece(i0, j0) \in wp_vocab
                      /\ \A j1 \in (j0 + 1)..Len(word) : Piece(i0, j1) \notin wp_vocab
                      /\ IF n < Len(wp_tokens) THEN wp_spans[n + 1][1] = j0 ELSE wp_i = j0

\* a second token chosen as the longest of two matches at its position
C10_Witness ==
    /\ IsTokenizeWordpiece /\ pc = "done" /\ Len(wp_tokens) >= 2
    /\ wp_tokens[2] # UNK
    /\ \E j1 \in (wp_spans[2][1] + 1)..(wp_spans[2][2] - 1) : Piece(wp_spans[2][1], j1) \in wp_vocab

---------------------------------------------------------------------------
\* the tokens appended by the else branch: no substring was taken for them
Fallbacks == { n \in 1..Len(wp_spans) : wp_spans[n][1] = wp_spans[n][2] }
UnknownTokens == { n \in 1..Len(wp_tokens) : wp_tokens[n] = UNK }
NoMatchAt(i0) == \A j1 \in (i0 + 1)..Len(word) : Piece(i0, j1) \notin wp_vocab
MarkerInVocab == UNK \in wp_vocab \/ (<<"#", "#">> \o UNK) \in wp_vocab
Stopped == pc \in {"return", "done"}

---------------------------------------------------------------------------
(* C12: merge_vocab keeps frequencies: each merge step of learn_bpe and       *)
(* train_wordpiece maps the entries one-to-one, so the number of entries,     *)
(* each entry's count and the sum of the counts are the same before and after *)
(* the merge, and no two entries have the same key.                           *)
C12_MergeKeepsFrequencies ==
    (IsLearnerOfSymbols /\ Merged) =>
        /\ Len(vocab) = Len(Before)
        /\ Cardinality(Keys(vocab)) = Len(vocab)
        /\ \A e \in 1..Len(Before) : e <= Len(vocab) => vocab[e][2] = Before[e][2]
        /\ SumSeq([e \in 1..Len(vocab) |-> vocab[e][2]])
               = SumSeq([e \in 1..Len(Before) |-> Before[e][2]])
        /\ SumSeq([e \in 1..Len(vocab) |-> vocab[e][2]]) = Len(tokens)

\* a second merge in a vocabulary with entries of different counts, which changed
\* more than one entry
C12_Witness ==
    /\ IsLearnerOfSymbols /\ Len(hist) >= 2
    /\ \E e \in 1..Len(vocab) : \E f \in 1..Len(vocab) : vocab[e][2] > vocab[f][2]
    /\ Cardinality({ e \in 1..Len(vocab) : vocab[e][1] # Before[e][1] }) >= 2

---------------------------------------------------------------------------
\* what learn_bpe(toks, n) returns, from its arguments alone
learn_bpe_result(toks, n) ==
    LET RECURSIVE loop(_, _)
        loop(v, k) ==
            IF ~range_next(k, n) THEN v
            ELSE LET ps == get_stats(v)
                 IN IF ps = <<>> THEN v
                    ELSE loop(merge_vocab(most_common_1(ps), v), k + 1)
    IN loop(get_vocab(toks), 0)

IsLearnBpe == prog = "learn_bpe"
GlobalMerged == IsLearnBpe /\ g_vocab # get_vocab(tokens)

(* C13: learn_bpe re-derives its vocabulary from its tokens argument: what it *)
(* returns is determined by (tokens, num_merges), whether or not the cell     *)
(* before it merged a pair in the global vocab; its first merge on the sample *)
(* corpus is again ('l','o'); and no step of learn_bpe changes the global     *)
(* vocab.                                                                     *)
C13_LearnBpeOwnVocabulary ==
    /\ [](IsLearnBpe =>
            /\ pc = "done" => ret = [kind |-> "vocab",
                                     value |-> learn_bpe_result(tokens, num_merges)]
            /\ pc = "loop" /\ hist = <<>> => vocab = get_vocab(tokens)
            /\ (tokens = SampleTokens /\ hist # <<>>) => hist[1][2] = << <<"l">>, <<"o">> >>)
    /\ [][(bpe_start \/ bpe_iter \/ bpe_exhausted \/ bpe_return) => g_vocab' = g_vocab]_vars

\* learn_bpe has returned after merging, and the global vocab had a pair merged before
C13_Witness ==
    /\ GlobalMerged /\ pc = "done" /\ Len(hist) >= 2

---------------------------------------------------------------------------
(* Word-level tokenizer: vocabulary and encoding *)

IsWordTokenizer == prog = "word_tokenizer"
VocabBuilt == IsWordTokenizer /\ pc \in {"encode", "encode_other", "done", "raised"}
Encoding == IsWordTokenizer /\ pc \in {"done", "raised"}
SameText == Encoding /\ sentence = hist[1]
Ids(d) == { d[k][2] : k \in 1..Len(d) }

(* C14: the vocabulary gives the distinct tokens of the text the ids 0..n-1,
   one id per token and one token per id, in ascending order of the tokens;
   encoding the tokens of the same text succeeds and yields, position by
   position, the id of each token *)
C14_SortedBijectionAndEncoding ==
    /\ VocabBuilt =>
          /\ Keys(vocab) = Elems(hist[1])
          /\ Len(vocab) = Cardinality(Keys(vocab))
          /\ Ids(vocab) = 0..(Len(vocab) - 1)
          /\ \A a \in 1..Len(vocab) : \A b \in 1..Len(vocab) :
                str_lt(vocab[a][1], vocab[b][1]) <=> vocab[a][2] < vocab[b][2]
    /\ SameText =>
          /\ pc = "done"
          /\ ret = NoReturn
          /\ Len(encoded) = Len(sentence)
          /\ \A k \in 1..Len(sentence) :
                \E e \in 1..Len(vocab) :
                    vocab[e][1] = sentence[k] /\ vocab[e][2] = encoded[k]

C14_Witness ==
    /\ SameText /\ pc = "done"
    /\ Len(vocab) >= 2
    /\ Len(sentence) > Len(vocab)
    /\ \E k \in 2..Len(sentence) : str_lt(sentence[k], sentence[k-1])

\* the recorded outputs of the notebook for its own text
C14_SampleOutputs ==
    (IsWordTokenizer /\ pc = "done" /\ text = SampleWordText) =>
        /\ Len(vocab) = 10
        /\ vocab[1] = << <<"a", "c", "t", "i", "o", "n">>, 0 >>
        /\ vocab[4] = << <<"h", "e", "l", "l", "o">>, 3 >>
        /\ vocab[10] = << <<"w", "o", "r", "l", "d">>, 9 >>
        /\ encoded = <<3, 9, 7, 5, 1, 2, 6, 8, 4, 0>>

---------------------------------------------------------------------------
(* Word-level tokenizer: punctuation between two words *)

IsPunct(c) == ~is_alnum(c) /\ ~is_space(c)
\* the maximal runs of [a-zA-Z0-9] in s: where they start, and where one ends
AlnumRunStarts(s) ==
    { k \in 1..Len(s) : is_alnum(s[k]) /\ (k = 1 \/ ~is_alnum(s[k-1])) }
AlnumRunEnd(s, k) ==
    CHOOSE e \in k..Len(s) :
        /\ \A j \in k..e : is_alnum(s[j])
        /\ (e = Len(s) \/ ~is_alnum(s[e+1]))
\* the words that have exactly one punctuation character between them and the next word
GluedByPunct(s) ==
    { a \in AlnumRunStarts(s) :
        LET e == AlnumRunEnd(s, a)
        IN e + 2 <= Len(s) /\ IsPunct(s[e+1]) /\ is_alnum(s[e+2]) }

(* C15: two words of the text that are separated only by a punctuation
   character come out of preprocess as two separate, consecutive tokens *)
C15_SplitsOnPunctuation ==
    (IsWordTokenizer /\ pc # "preprocess") =>
        \A a \in GluedByPunct(text) :
            LET e == AlnumRunEnd(text, a)
                left == lower(SubSeq(text, a, e))
                right == lower(SubSeq(text, e + 2, AlnumRunEnd(text, e + 2)))
            IN \E n \in 1..(Len(tokens) - 1) :
                  tokens[n] = left /\ tokens[n+1] = right

---------------------------------------------------------------------------
(* Word-level tokenizer: a token that is not in the vocabulary *)

\* positions of the looked-up tokens that are not keys of the vocabulary
Unknown == { k \in 1..Len(sentence) : sentence[k] \notin Keys(vocab) }

(* C16: looking up a token that is not in the vocabulary raises KeyError for
   the first such token, nobody catches it, no list of ids is produced and
   no id stands in for the token; without such a token every id is found *)
C16_OutOfVocabularyKeyError ==
    Encoding =>
        IF Unknown # {}
        THEN /\ pc = "raised"
             /\ ret.kind = "KeyError"
             /\ \E k \in Unknown :
                   /\ \A m \in Unknown : k <= m
                   /\ ret.value = sentence[k]
             /\ encoded = <<>>
        ELSE /\ pc = "done"
             /\ ret = NoReturn
             /\ Len(encoded) = Len(sentence)

C16_Witness ==
    /\ Encoding /\ pc = "raised"
    /\ Len(vocab) >= 1
    /\ Cardinality(Unknown) >= 1
    /\ \E k \in 1..Len(sentence) : k \notin Unknown /\ \E m \in Unknown : k < m

---------------------------------------------------------------------------
(* Token embeddings: ids and the number of embedding rows *)

IsTokenEmbeddings == prog = "token_embeddings"

(* C17: for any word list, every word of the vocabulary has an id with
   0 <= id < vocab_size, and the embedding lookup of the ids of its words
   never indexes out of range *)
C17_IdsBelowVocabSize ==
    /\ (IsTokenEmbeddings /\ pc # "vocab") =>
          /\ Keys(vocab) = Elems(text)
          /\ \A e \in 1..Len(vocab) : 0 <= vocab[e][2] /\ vocab[e][2] < vocab_size
    /\ (IsTokenEmbeddings /\ pc \in {"done", "raised"}) =>
          pc = "done" /\ ret.kind = "rows"

\* the word lists of the notebooks themselves get ids in range
C17_SampleInRange ==
    (IsTokenEmbeddings /\ pc # "vocab" /\ text \in {SampleEmbText, SampleCombineText}) =>
        /\ vocab_size = 5
        /\ \A e \in 1..Len(vocab) : vocab[e][2] = e - 1
        /\ pc # "raised"

---------------------------------------------------------------------------
(* Byte-level merges replayed on the training sentences *)

(* C18: byte_tokenize of a sentence of the training corpus, with the merge
   list the byte-level merge_vocab has built, gives the tokens the training
   loop holds for that sentence; at the end these are the returned merges and
   the tokens after the last merge *)
C18_ReplayEqualsTraining ==
    (IsByteLearner /\ pc # "start") =>
        /\ \A l \in 1..Len(tokens) :
              byte_tokenize(tokens[l], merges) = LineBytes(byte_corpus, l)
        /\ pc = "done" => ret.value = merges

C18_Witness ==
    /\ IsByteLearner /\ pc = "done"
    /\ Len(ret.value) >= 2
    /\ \E l \in 1..Len(tokens) :
          /\ Len(byte_corpus[l]) >= 2
          /\ \E n \in 1..Len(byte_corpus[l]) : Len(LineBytes(byte_corpus, l)[n]) >= 2
          /\ byte_tokenize(tokens[l], ret.value) = LineBytes(byte_corpus, l)
    /\ \E l \in 1..Len(tokens) :
          \E n \in 1..Len(byte_corpus[l]) : Len(LineBytes(byte_corpus, l)[n]) >= 3

---------------------------------------------------------------------------
(* End-of-word marker *)

\* where the marker text starts in a string
MarkerAt(s) == { k \in 1..(Len(s) - Len(EOW) + 1) : SubSeq(s, k, k + Len(EOW) - 1) = EOW }
EndsWithMarker(s) == Len(s) >= Len(EOW) /\ (Len(s) - Len(EOW) + 1) \in MarkerAt(s)
VocabularyReached == IsLearnerOfSymbols /\ pc # "start"

(* C19: in every vocabulary reached by learn_bpe and train_wordpiece, for
   corpus words that do not contain the marker text, the marker occurs exactly
   once in each entry, as the final characters of the entry's last symbol, and
   in no symbol before the last *)
C19_MarkerOnceAtEnd ==
    VocabularyReached =>
        \A e \in 1..Len(vocab) :
            LET entry == vocab[e][1]
                syms == Symbols(vocab, e)
            IN /\ Cardinality(MarkerAt(entry)) = 1
               /\ syms # <<>>
               /\ EndsWithMarker(syms[Len(syms)])
               /\ Cardinality(MarkerAt(syms[Len(syms)])) = 1
               /\ \A p \in 1..(Len(syms) - 1) : MarkerAt(syms[p]) = {}

\* a merge has absorbed the marker into a longer last symbol, next to an entry
\* whose word is made of marker characters and has been merged too
C19_Witness ==
    /\ VocabularyReached /\ Merged
    /\ \E e \in 1..Len(vocab) :
          LET syms == Symbols(vocab, e)
          IN Len(syms) >= 1 /\ Len(syms[Len(syms)]) > Len(EOW)
    /\ \E e \in 1..Len(vocab) :
          LET syms == Symbols(vocab, e)
          IN \E p \in 1..Len(syms) :
                Len(syms[p]) >= 2 /\ syms[p] # EOW /\ syms[p][1] \in {"<", "w"}
                /\ MarkerAt(syms[p]) = {}

---------------------------------------------------------------------------
(* Early exit of the merge loops *)

IsLearner == IsLearnerOfSymbols \/ IsByteLearner
\* the loop is at the head of an iteration that range(num_merges) still grants
IterationGranted == IsLearner /\ pc = "loop" /\ i < num_merges
\* the step leaves the loop without merging
LeavesLoop == pc' = "return" /\ i' = i /\ hist' = hist
\* the loop was left with iterations of range(num_merges) remaining
EndedEarly == IsLearner /\ pc \in {"return", "done"} /\ i < num_merges

(* C20, as it was claimed: the loop of a learner ends before num_merges
   iterations exactly when every vocabulary entry (every corpus line) consists
   of at most one symbol, and the merges performed never exceed num_merges *)
C20_EarlyExactlyWhenSingleSymbols ==
    (IsLearner /\ pc \in {"return", "done"}) =>
        /\ (i < num_merges) <=> NothingLeftToMerge
        /\ Len(hist) <= num_merges

(* C20, amended: an iteration that range(num_merges) grants leaves the loop
   exactly when every vocabulary entry (every corpus line) has at most one
   symbol, and otherwise performs one merge; a loop that ended early ended
   with nothing left to merge; the merges performed never exceed num_merges *)
C20_EarlyExitOnlyWhenNothingToMerge ==
    /\ [](IsLearner => (Len(hist) = i /\ i <= num_merges))
    /\ [](EndedEarly => NothingLeftToMerge)
    /\ [][IterationGranted =>
            /\ LeavesLoop <=> NothingLeftToMerge
            /\ ~LeavesLoop => (pc' = "loop" /\ i' = i + 1 /\ Len(hist') = Len(hist) + 1)]_vars

C20_Witness ==
    /\ EndedEarly /\ pc = "return"
    /\ Len(hist) >= 2
    /\ Len(tokens) >= 2
    /\ ~(IF IsByteLearner
         THEN \A l \in 1..Len(hist[1][1]) : Len(hist[1][1][l]) <= 1
         ELSE \A e \in 1..Len(hist[1][1]) : Len(Symbols(hist[1][1], e)) <= 1)

---------------------------------------------------------------------------
(* Byte-level merges are new tokens *)

\* the tokens of a byte corpus, as byte strings
CorpusTokens(bc) == UNION { { LineBytes(bc, l)[n] : n \in 1..Len(bc[l]) } : l \in 1..Len(bc) }

(* C21: in a byte-level training run the byte string recorded at a merge step
   is not a token of the corpus before that step and differs from every merge
   recorded earlier; the merge list, and so the list returned, has no
   duplicates *)
C21_MergeIsNewToken ==
    IsByteLearner =>
        /\ merges = MergesPerformed
        /\ \A k \in 1..Len(hist) :
              /\ hist[k][2] \notin CorpusTokens(hist[k][1])
              /\ \A j \in 1..(k-1) : hist[j][2] # hist[k][2]
        /\ Cardinality({ merges[k] : k \in 1..Len(merges) }) = Len(merges)
        /\ pc = "done" =>
              /\ ret.value = merges
              /\ \A j \in 1..Len(ret.value) : \A k \in 1..Len(ret.value) :
                    ret.value[j] = ret.value[k] => j = k

\* three merges, one of which extends an earlier merge by a byte that follows it
C21_Witness ==
    /\ IsByteLearner /\ pc = "done"
    /\ Len(ret.value) >= 3
    /\ \E j \in 1..Len(hist) : \E k \in 1..Len(hist) :
          /\ j < k
          /\ Len(hist[k][2]) = Len(hist[j][2]) + 1
          /\ SubSeq(hist[k][2], 1, Len(hist[j][2])) = hist[j][2]
          /\ hist[j][2] \in CorpusTokens(hist[k][1])

=============================================================================
